---- MODULE Spec2Model ----
(***************************************************************************)
(* Model of src/main.py: the TDesktop (tdata) -> Telethon session          *)
(* converter.  One process run is main() wrapped by the __main__ handler.  *)
(* The file system, the command-line argument and the outcomes of the      *)
(* external collaborators (TDesktop loader, ToTelethon converter, the      *)
(* Telethon client) are the inputs; they are drawn nondeterministically.   *)
(* Successive runs over the same argument and the same file system are     *)
(* modelled by the Rerun action.                                           *)
(***************************************************************************)
EXTENDS Naturals, Sequences, FiniteSets, TLC

\* ------------------------------------------------------------------ bounds
\* Number of successive process runs over the same input.
MaxRuns == 2

\* ------------------------------------------------------------------ paths
\* A path is a sequence of tokens; Sep is the path separator, every other
\* token is a piece of a file name ("p1" ".session" is the name p1.session).
Sep == "/"

\* Account directory names, child directory names, an optional parent.
Names == {"p1", "p2"}
ChildNames == {"c1", "c2"}
Parent == "acc"

\* os.getcwd(): the working directory, an absolute path.
Cwd == <<Sep, "w">>

\* Command-line spellings of the base directory: with or without a parent
\* prefix, with or without a trailing separator.
Args ==
    { pre \o <<n>> \o trail :
        pre \in {<< >>, <<Parent, Sep>>}, n \in Names, trail \in {<< >>, <<Sep>>} }

\* Index of the last separator of p, 0 when there is none (str.rfind + 1).
RECURSIVE LastSep(_)
LastSep(p) ==
    IF p = << >> THEN 0
    ELSE IF p[Len(p)] = Sep THEN Len(p)
    ELSE LastSep(SubSeq(p, 1, Len(p) - 1))

\* os.path.basename(p): what follows the last separator, possibly nothing.
basename(p) == SubSeq(p, LastSep(p) + 1, Len(p))

\* os.path.join(a, b): b alone when absolute, else a and b with one
\* separator between them unless a already ends with one.
join(a, b) ==
    IF b # << >> /\ Head(b) = Sep THEN b
    ELSE IF a = << >> \/ a[Len(a)] = Sep THEN a \o b
    ELSE a \o <<Sep>> \o b

\* The components of p: the maximal separator-free runs, empty ones dropped.
RECURSIVE Components(_)
Components(p) ==
    IF p = << >> THEN << >>
    ELSE IF Head(p) = Sep THEN Components(Tail(p))
    ELSE LET n == IF \E i \in 1..Len(p) : p[i] = Sep
             THEN (CHOOSE i \in 1..Len(p) :
                       p[i] = Sep /\ \A j \in 1..(i - 1) : p[j] # Sep) - 1
             ELSE Len(p)
         IN  <<SubSeq(p, 1, n)>> \o Components(SubSeq(p, n + 1, Len(p)))

\* The file system object a path denotes: relative paths resolve against
\* the working directory.
Resolve(p) ==
    IF p # << >> /\ Head(p) = Sep THEN Components(p)
    ELSE Components(Cwd) \o Components(p)

\* os.path.exists(p) in file system f (a function from resolved paths to
\* "dir" or to a file's content).
exists(f, p) == Resolve(p) \in DOMAIN f

\* ------------------------------------------------------------------ state
VARIABLES
    arg,            \* args.phone_number_directory, as spelled on the command line
    fs,             \* the file system: resolved path -> "dir" or file content
    startFs,        \* fs as it was when the current run started
    run,            \* number of the current process run
    past,           \* return sites of the completed earlier runs
    pc,             \* position of main() in the current run
    tdata_folder,   \* locals of main()
    phone_number,
    output_dir,
    session_file,
    tdesk,          \* "none" or "tdesk": result of load_tdesktop_client
    client,         \* "none" or "client": the Telethon client ToTelethon returned
    connOpen,       \* the client's connection is open
    authorized,     \* "unknown", "yes" or "no": the connected session's state
    clientReturned, \* convert_to_telethon_session returned the client to main
    calls,          \* the calls made on the OS and the collaborators, in order
    log,            \* the log records of the current run, in order
    result,         \* where main() returned: "none" while running
    exitStatus      \* "running", "normal" or "abnormal"

vars == <<arg, fs, startFs, run, past, pc, tdata_folder, phone_number, output_dir,
          session_file, tdesk, client, connOpen, authorized, clientReturned,
          calls, log, result, exitStatus>>

\* ------------------------------------------------------------------ logging
Info(m) == [level |-> "INFO", msg |-> m]
Warning(m) == [level |-> "WARNING", msg |-> m]
Error(m) == [level |-> "ERROR", msg |-> m]

\* A recorded call: the operation, its path argument and its result, a
\* string ("True"/"False" for a boolean answer).
Call(o, a, r) == [op |-> o, arg |-> a, res |-> r]
Str(b) == IF b THEN "True" ELSE "False"

Logged(m) == \E i \in 1..Len(log) : log[i].msg = m
HasError == \E i \in 1..Len(log) : log[i].level = "ERROR"
Called(o) == \E i \in 1..Len(calls) : calls[i].op = o
CountCalls(o) == Cardinality({i \in 1..Len(calls) : calls[i].op = o})

\* ------------------------------------------------------------------ input
\* The input tree under base directory b (a resolved path): absent, or
\* present with or without its own tdata and with any children, each plain
\* or holding a tdata subfolder.
Prefixes(b) == {SubSeq(b, 1, i) : i \in 0..Len(b)}

InputTrees(b) ==
    {{}} \cup
    { Prefixes(b)
        \cup (IF own THEN {b \o <<(<<"tdata">>)>>} ELSE {})
        \cup {b \o <<(<<c>>)>> : c \in {c \in ChildNames : kids[c] # "absent"}}
        \cup {b \o <<(<<c>>), (<<"tdata">>)>> : c \in {c \in ChildNames : kids[c] = "tdata"}} :
      own \in BOOLEAN, kids \in [ChildNames -> {"absent", "plain", "tdata"}] }

\* The output directory and the session file names that may already be there.
OutDir == Resolve(join(Cwd, <<"output">>))
SessionNames == {<<".session">>} \cup {<<n, ".session">> : n \in Names}

DirFs(dirs) == [p \in dirs |-> "dir"]
FileFs(names) == [p \in {OutDir \o <<nm>> : nm \in names} |-> "old"]

InitialFs(a) ==
    { DirFs(Prefixes(Components(Cwd)) \cup tree \cup out) @@ FileFs(old) :
        tree \in InputTrees(Resolve(a)),
        out \in {{}, {OutDir}},
        old \in SUBSET SessionNames }

Init ==
    /\ arg \in Args
    /\ fs \in {f \in InitialFs(arg) :
                 \A nm \in SessionNames : (OutDir \o <<nm>>) \in DOMAIN f => OutDir \in DOMAIN f}
    /\ startFs = fs
    /\ run = 1
    /\ past = << >>
    /\ pc = "setup"
    /\ tdata_folder = << >>
    /\ phone_number = << >>
    /\ output_dir = << >>
    /\ session_file = << >>
    /\ tdesk = "none"
    /\ client = "none"
    /\ connOpen = FALSE
    /\ authorized = "unknown"
    /\ clientReturned = FALSE
    /\ calls = << >>
    /\ log = << >>
    /\ result = "none"
    /\ exitStatus = "running"

\* ------------------------------------------------------------------ exits
\* main() returns at `site` with log lg: asyncio.run returns and the process
\* ends normally.
Returns(site, lg) ==
    /\ pc' = "done"
    /\ result' = site
    /\ log' = lg
    /\ exitStatus' = "normal"

\* Mutant of Escapes: no handler around asyncio.run, the exception ends the
\* process.
Escapes_Uncaught(lg) ==
    /\ pc' = "done"
    /\ result' = "fatal"
    /\ log' = lg
    /\ exitStatus' = "abnormal"

\* An exception leaves main(): the __main__ handler catches it, logs
\* "Erro fatal" and the process ends normally.
Escapes(lg) ==
    /\ pc' = "done"
    /\ result' = "fatal"
    /\ log' = Append(lg, Error("Erro fatal"))
    /\ exitStatus' = "normal"

\* convert_to_telethon_session returned None: main() reports and returns.
ConversionFailed(lg) ==
    Returns("convert_failed", Append(lg, Error("Falha ao converter para sessao Telethon")))

\* load_tdesktop_client returned None: main() reports and returns.
LoadFailed(lg) ==
    Returns("load_failed", Append(lg, Error("Falha ao carregar o cliente TDesktop")))

\* Mutant of AfterTdataCheck: the source session is loaded first and the
\* duplicate check is lost.
AfterTdataCheck_LoadFirst == "load"

\* The order of main(): what follows the tdata check, the duplicate check
\* and a successful load.
AfterTdataCheck == "check_dup"
AfterDuplicateCheck == "load"
AfterLoad == "convert"

\* ------------------------------------------------------------------ actions
\* main(), lines 117-127: the paths, and ensure_output_directory().
Setup ==
    /\ pc = "setup"
    /\ tdata_folder' = join(arg, <<"tdata">>)
    /\ phone_number' = basename(arg)
    /\ LET od == join(Cwd, <<"output">>)
           probe == Append(calls, Call("exists_output_dir", od, Str(exists(fs, od))))
       IN  \/ /\ exists(fs, od)
              /\ calls' = probe
              /\ output_dir' = od
              /\ session_file' = join(od, basename(arg) \o <<".session">>)
              /\ pc' = "check_tdata"
              /\ UNCHANGED <<fs, log, result, exitStatus>>
           \/ /\ ~exists(fs, od)
              /\ calls' = Append(probe, Call("makedirs", od, "ok"))
              /\ fs' = fs @@ (Resolve(od) :> "dir")
              /\ log' = Append(log, Info("Pasta 'output' criada"))
              /\ output_dir' = od
              /\ session_file' = join(od, basename(arg) \o <<".session">>)
              /\ pc' = "check_tdata"
              /\ UNCHANGED <<result, exitStatus>>
    /\ UNCHANGED <<arg, startFs, run, past, tdesk, client, connOpen, authorized,
                   clientReturned>>

\* Mutant of CheckTdata: the base directory is tested instead of its tdata
\* subfolder.
CheckTdata_BaseOnly ==
    /\ pc = "check_tdata"
    /\ calls' = Append(calls, Call("exists_tdata", arg, Str(exists(fs, arg))))
    /\ IF exists(fs, arg)
       THEN /\ pc' = AfterTdataCheck
            /\ UNCHANGED <<log, result, exitStatus>>
       ELSE Returns("no_tdata", Append(log, Error("Diretorio tdata nao encontrado")))
    /\ UNCHANGED <<arg, fs, startFs, run, past, tdata_folder, phone_number, output_dir,
                   session_file, tdesk, client, connOpen, authorized, clientReturned>>

\* main(), lines 129-132: no tdata folder, nothing to do.
CheckTdata ==
    /\ pc = "check_tdata"
    /\ calls' = Append(calls, Call("exists_tdata", tdata_folder, Str(exists(fs, tdata_folder))))
    /\ IF exists(fs, tdata_folder)
       THEN /\ pc' = AfterTdataCheck
            /\ UNCHANGED <<log, result, exitStatus>>
       ELSE Returns("no_tdata", Append(log, Error("Diretorio tdata nao encontrado")))
    /\ UNCHANGED <<arg, fs, startFs, run, past, tdata_folder, phone_number, output_dir,
                   session_file, tdesk, client, connOpen, authorized, clientReturned>>

\* Mutant of CheckDuplicate: the answer of check_duplicate_session is
\* logged but main() goes on.
CheckDuplicate_NoSkip ==
    /\ pc = "check_dup"
    /\ calls' = Append(calls,
                    Call("check_duplicate_session", session_file, Str(exists(fs, session_file))))
    /\ log' = IF exists(fs, session_file)
              THEN Append(log, Warning("Arquivo de sessao ja existe"))
              ELSE log
    /\ pc' = AfterDuplicateCheck
    /\ UNCHANGED <<arg, fs, startFs, run, past, tdata_folder, phone_number, output_dir,
                   session_file, tdesk, client, connOpen, authorized, clientReturned,
                   result, exitStatus>>

\* main(), lines 134-137, with check_duplicate_session (104-113).
CheckDuplicate ==
    /\ pc = "check_dup"
    /\ calls' = Append(calls,
                    Call("check_duplicate_session", session_file, Str(exists(fs, session_file))))
    /\ IF exists(fs, session_file)
       THEN Returns("skipped",
                    log \o << Warning("Arquivo de sessao ja existe"),
                              Info("Arquivo de sessao ja existe. Por favor, verifique e remova") >>)
       ELSE /\ pc' = AfterDuplicateCheck
            /\ UNCHANGED <<log, result, exitStatus>>
    /\ UNCHANGED <<arg, fs, startFs, run, past, tdata_folder, phone_number, output_dir,
                   session_file, tdesk, client, connOpen, authorized, clientReturned>>

\* Mutant of LoadStandard: the inner handler catches every exception, so a
\* raising loader is tried a second time.
LoadStandard_RaiseFallsThrough ==
    /\ pc = "load"
    /\ \E o \in {"loaded", "not_loaded", "raise"} :
        LET lg == Append(log, Info("Carregando o cliente TDesktop da pasta"))
        IN  /\ calls' = Append(calls, Call("TDesktop", tdata_folder, o))
            /\ \/ /\ o = "loaded"
                  /\ tdesk' = "tdesk"
                  /\ log' = Append(lg, Info("Cliente TDesktop carregado com sucesso"))
                  /\ pc' = AfterLoad
                  /\ UNCHANGED <<result, exitStatus>>
               \/ /\ o \in {"not_loaded", "raise"}
                  /\ log' = Append(lg, Warning("Falha ao carregar usando o metodo padrao"))
                  /\ pc' = "load_alt"
                  /\ UNCHANGED <<tdesk, result, exitStatus>>
    /\ UNCHANGED <<arg, fs, startFs, run, past, tdata_folder, phone_number, output_dir,
                   session_file, client, connOpen, authorized, clientReturned>>

\* load_tdesktop_client, lines 24-35 and 51-53: the standard method.  The
\* loader returns with accounts ("loaded"), returns with none so that the
\* assertion of line 30 fails ("not_loaded"), or raises.
LoadStandard ==
    /\ pc = "load"
    /\ \E o \in {"loaded", "not_loaded", "raise"} :
        LET lg == Append(log, Info("Carregando o cliente TDesktop da pasta"))
        IN  /\ calls' = Append(calls, Call("TDesktop", tdata_folder, o))
            /\ \/ /\ o = "loaded"
                  /\ tdesk' = "tdesk"
                  /\ log' = Append(lg, Info("Cliente TDesktop carregado com sucesso"))
                  /\ pc' = AfterLoad
                  /\ UNCHANGED <<result, exitStatus>>
               \/ /\ o = "not_loaded"
                  /\ log' = Append(lg, Warning("Falha ao carregar usando o metodo padrao"))
                  /\ pc' = "load_alt"
                  /\ UNCHANGED <<tdesk, result, exitStatus>>
               \/ /\ o = "raise"
                  /\ LoadFailed(Append(lg, Error("Erro ao carregar o cliente TDesktop")))
                  /\ UNCHANGED tdesk
    /\ UNCHANGED <<arg, fs, startFs, run, past, tdata_folder, phone_number, output_dir,
                   session_file, client, connOpen, authorized, clientReturned>>

\* load_tdesktop_client, lines 36-50: the alternative method, tried after
\* the assertion of the standard one failed.
LoadAlternative ==
    /\ pc = "load_alt"
    /\ \E o \in {"loaded", "not_loaded", "raise"} :
        /\ calls' = Append(calls, Call("TDesktop", tdata_folder, o))
        /\ \/ /\ o = "loaded"
              /\ tdesk' = "tdesk"
              /\ log' = Append(log, Info("Cliente TDesktop carregado usando metodo alternativo"))
              /\ pc' = AfterLoad
              /\ UNCHANGED <<result, exitStatus>>
           \/ /\ o = "not_loaded"
              /\ LoadFailed(Append(log, Error("Nenhum metodo conseguiu carregar o cliente TDesktop")))
              /\ UNCHANGED tdesk
           \/ /\ o = "raise"
              /\ LoadFailed(log \o
                    << Warning("Falha ao carregar usando o metodo alternativo"),
                       Error("Nenhum metodo conseguiu carregar o cliente TDesktop") >>)
              /\ UNCHANGED tdesk
    /\ UNCHANGED <<arg, fs, startFs, run, past, tdata_folder, phone_number, output_dir,
                   session_file, client, connOpen, authorized, clientReturned>>

\* convert_to_telethon_session, lines 65-72 (and 88-90 when it raises): the
\* converter returns a client or raises, and has or has not written the
\* session file by then.
Convert ==
    /\ pc = "convert"
    /\ \E o \in {"ok", "raise"}, wrote \in BOOLEAN :
        LET lg == Append(log, Info("Convertendo TDesktop para Telethon"))
        IN  /\ calls' = Append(calls, Call("ToTelethon", session_file, o))
            /\ fs' = IF wrote
                     THEN (Resolve(session_file) :> ToString(run)) @@ fs
                     ELSE fs
            /\ \/ /\ o = "ok"
                  /\ client' = "client"
                  /\ log' = lg
                  /\ pc' = "connect"
                  /\ UNCHANGED <<result, exitStatus>>
               \/ /\ o = "raise"
                  /\ ConversionFailed(Append(lg, Error("Erro ao converter para sessao Telethon")))
                  /\ UNCHANGED client
    /\ UNCHANGED <<arg, startFs, run, past, tdata_folder, phone_number, output_dir,
                   session_file, tdesk, connOpen, authorized, clientReturned>>

\* convert_to_telethon_session, lines 74-75: client.connect().  Once the
\* connection is up the session is authorized or it is not.
Connect ==
    /\ pc = "connect"
    /\ \/ \E a \in {"yes", "no"} :
            /\ calls' = Append(calls, Call("connect", << >>, "ok"))
            /\ connOpen' = TRUE
            /\ authorized' = a
            /\ log' = Append(log, Info("Sessao Telethon criada e conectada com sucesso"))
            /\ pc' = "get_me"
            /\ UNCHANGED <<result, exitStatus>>
       \/ /\ calls' = Append(calls, Call("connect", << >>, "raise"))
          /\ ConversionFailed(Append(log, Error("Erro ao converter para sessao Telethon")))
          /\ UNCHANGED <<connOpen, authorized>>
    /\ UNCHANGED <<arg, fs, startFs, run, past, tdata_folder, phone_number, output_dir,
                   session_file, tdesk, client, clientReturned>>

\* What client.get_me() can answer: the user of an authorized session, no
\* user (None) for one that is not, or an error either way.
GetMeOutcomes == IF authorized = "yes" THEN {"user", "raise"} ELSE {"none", "raise"}

\* Mutant of IdentityFails: the user is only logged when there is one, so
\* None passes.
IdentityFails_NoneAccepted(o) == o = "raise"

\* Lines 78-79 fail when get_me raises, and when it returns None, since
\* me.first_name then raises AttributeError.
IdentityFails(o) == o \in {"none", "raise"}

\* convert_to_telethon_session, lines 77-79.
GetMe ==
    /\ pc = "get_me"
    /\ \E o \in GetMeOutcomes :
        /\ calls' = Append(calls, Call("get_me", << >>, o))
        /\ IF IdentityFails(o)
           THEN ConversionFailed(Append(log, Error("Erro ao converter para sessao Telethon")))
           ELSE /\ log' = Append(log, Info("Usuario conectado"))
                /\ pc' = "check_saved"
                /\ UNCHANGED <<result, exitStatus>>
    /\ UNCHANGED <<arg, fs, startFs, run, past, tdata_folder, phone_number, output_dir,
                   session_file, tdesk, client, connOpen, authorized, clientReturned>>

\* convert_to_telethon_session, lines 81-87: the session file must be there.
CheckSaved ==
    /\ pc = "check_saved"
    /\ calls' = Append(calls, Call("exists_session_file", session_file, Str(exists(fs, session_file))))
    /\ IF exists(fs, session_file)
       THEN /\ log' = Append(log, Info("Arquivo de sessao salvo com sucesso"))
            /\ clientReturned' = TRUE
            /\ pc' = "disconnect"
            /\ UNCHANGED <<result, exitStatus>>
       ELSE /\ ConversionFailed(Append(log, Error("Falha ao salvar o arquivo de sessao")))
            /\ UNCHANGED clientReturned
    /\ UNCHANGED <<arg, fs, startFs, run, past, tdata_folder, phone_number, output_dir,
                   session_file, tdesk, client, connOpen, authorized>>

\* main(), lines 151-153: client.disconnect().  When it raises, the
\* exception leaves main() and the connection is closed or is not.
Disconnect ==
    /\ pc = "disconnect"
    /\ \/ /\ calls' = Append(calls, Call("disconnect", << >>, "ok"))
          /\ connOpen' = FALSE
          /\ Returns("success", Append(log, Info("Processo concluido com sucesso")))
       \/ /\ calls' = Append(calls, Call("disconnect", << >>, "raise"))
          /\ connOpen' \in BOOLEAN
          /\ Escapes(log)
    /\ UNCHANGED <<arg, fs, startFs, run, past, tdata_folder, phone_number, output_dir,
                   session_file, tdesk, client, authorized, clientReturned>>

\* The process is started again with the same argument on the file system
\* the previous run left.
Rerun ==
    /\ pc = "done"
    /\ run < MaxRuns
    /\ run' = run + 1
    /\ past' = Append(past, result)
    /\ startFs' = fs
    /\ pc' = "setup"
    /\ tdata_folder' = << >>
    /\ phone_number' = << >>
    /\ output_dir' = << >>
    /\ session_file' = << >>
    /\ tdesk' = "none"
    /\ client' = "none"
    /\ connOpen' = FALSE
    /\ authorized' = "unknown"
    /\ clientReturned' = FALSE
    /\ calls' = << >>
    /\ log' = << >>
    /\ result' = "none"
    /\ exitStatus' = "running"
    /\ UNCHANGED <<arg, fs>>

Next ==
    \/ Setup
    \/ CheckTdata
    \/ CheckDuplicate
    \/ LoadStandard
    \/ LoadAlternative
    \/ Convert
    \/ Connect
    \/ GetMe
    \/ CheckSaved
    \/ Disconnect
    \/ Rerun

Spec == Init /\ [][Next]_vars

\* ------------------------------------------------------------------ typing
TypeOK ==
    /\ arg \in Args
    /\ run \in 1..MaxRuns
    /\ Len(past) = run - 1
    /\ pc \in {"setup", "check_tdata", "check_dup", "load", "load_alt", "convert",
               "connect", "get_me", "check_saved", "disconnect", "done"}
    /\ tdesk \in {"none", "tdesk"}
    /\ client \in {"none", "client"}
    /\ connOpen \in BOOLEAN
    /\ authorized \in {"unknown", "yes", "no"}
    /\ clientReturned \in BOOLEAN
    /\ result \in {"none", "no_tdata", "skipped", "load_failed", "convert_failed",
                   "success", "fatal"}
    /\ exitStatus \in {"running", "normal", "abnormal"}
    /\ (pc = "done") = (result # "none")
    /\ (pc = "done") = (exitStatus # "running")

\* ------------------------------------------------------------------ observers
\* The directory the argument denotes, its name, and whether a directory
\* held a tdata subfolder when the run started.
BaseDir == Resolve(arg)
BaseName == BaseDir[Len(BaseDir)]
HasTdata(d) == (d \o <<(<<"tdata">>)>>) \in DOMAIN startFs

\* The regular files of a file system.
FilesOf(f) == {p \in DOMAIN f : f[p] # "dir"}

\* A job has started in the current run: main() went past the tdata check.
JobStarted == pc \notin {"setup", "check_tdata"} /\ result # "no_tdata"

\* The job's return sites that are failures of the job.
FailedSites == {"load_failed", "convert_failed"}

SkipMessage == "Arquivo de sessao ja existe. Por favor, verifique e remova"
SuccessMessage == "Processo concluido com sucesso"

\* ------------------------------------------------------------------ C1
\* C1 (as claimed): once ToTelethon has returned a client, disconnect has
\* been called and the connection is closed by the time the job settles, on
\* every path; no job settles as failed with its connection still open.
C1_ConnectionReleasedBeforeSettle ==
    (pc = "done" /\ client = "client") =>
        /\ Called("disconnect")
        /\ ~connOpen

\* ------------------------------------------------------------------ C2
\* C2: when the job's output path exists as the job starts, the job is
\* skipped: no loader, converter or connection call is made, the file keeps
\* its content, nothing is logged at error level, and main() returns at the
\* duplicate check with the skip message.
C2_ExistingOutputSkipped ==
    (JobStarted /\ Resolve(session_file) \in DOMAIN startFs) =>
        /\ ~Called("ToTelethon")
        /\ ~Called("connect")
        /\ ~connOpen
        /\ client = "none"
        /\ Resolve(session_file) \in DOMAIN fs
        /\ fs[Resolve(session_file)] = startFs[Resolve(session_file)]
        /\ FilesOf(fs) = FilesOf(startFs)
        /\ ~HasError
        /\ pc \in {"check_dup", "done"}
        /\ pc = "done" => (result = "skipped" /\ Logged(SkipMessage) /\ exitStatus = "normal")

\* C2 witness: a run that found a file it did not write itself and skipped.
C2_Witness ==
    /\ pc = "done"
    /\ result = "skipped"
    /\ JobStarted
    /\ Resolve(session_file) \in DOMAIN startFs
    /\ startFs[Resolve(session_file)] = "old"

\* ------------------------------------------------------------------ C3
\* C3 (as claimed): of two successive runs, the second skips exactly when
\* the first succeeded: a success is skipped, and a job that failed in the
\* first run is attempted again instead of being skipped.
C3_SecondRunSkipsIffFirstSucceeded ==
    (run >= 2 /\ pc = "done") =>
        /\ past[run - 1] = "success" => result = "skipped"
        /\ past[run - 1] \in FailedSites => (result # "skipped" /\ Called("TDesktop"))

C5_MissingBaseTerminatesAbnormally ==
    /\ (pc = "done" /\ BaseDir \notin DOMAIN startFs) =>
            /\ exitStatus = "abnormal"
            /\ ~Called("TDesktop") /\ ~Called("ToTelethon") /\ ~Called("connect")
    /\ exitStatus = "abnormal" => BaseDir \notin DOMAIN startFs

\* ------------------------------------------------------------------ C6
\* The jobs the specification's discovery would produce: the base
\* directory alone when it holds tdata, else every child that does.
SpecJobs ==
    IF BaseDir \notin DOMAIN startFs THEN {}
    ELSE IF HasTdata(BaseDir) THEN {BaseName}
    ELSE {<<c>> : c \in {c \in ChildNames : HasTdata(BaseDir \o <<(<<c>>)>>)}}

\* The jobs the run has started, by identifier.
CodeJobs == IF JobStarted THEN {phone_number} ELSE {}

\* A job's outcome is settled and reported in the log.
Reported ==
    /\ result = "success" => Logged(SuccessMessage)
    /\ result = "skipped" => Logged(SkipMessage)
    /\ result = "load_failed" => Logged("Falha ao carregar o cliente TDesktop")
    /\ result = "convert_failed" => Logged("Falha ao converter para sessao Telethon")
    /\ result = "fatal" => Logged("Erro fatal")
    /\ result = "no_tdata" => Logged("Diretorio tdata nao encontrado")

ExpectedSessionPath == OutDir \o <<BaseName \o <<".session">>>>

\* C8 (as claimed): the duplicate check, the converter and the check after
\* conversion all use {output}/N.session, N the name of the directory the
\* argument denotes, however the argument is spelled.
C8_SessionPathFromDirectoryName ==
    \A i \in 1..Len(calls) :
        calls[i].op \in {"check_duplicate_session", "ToTelethon", "exists_session_file"} =>
            Resolve(calls[i].arg) = ExpectedSessionPath

\* ------------------------------------------------------------------ C9
\* The step of a job a recorded call belongs to.
StepOf(o) ==
    CASE o = "check_duplicate_session" -> "check"
      [] o = "TDesktop" -> "load"
      [] o = "ToTelethon" -> "convert"
      [] o = "connect" -> "connect"
      [] o = "get_me" -> "identity"
      [] o = "exists_session_file" -> "persist"
      [] o = "disconnect" -> "release"
      [] OTHER -> "none"

\* The job's calls of the current run, and the steps they make, in order
\* (the two attempts of the loader are one step).
JobCalls == SelectSeq(calls, LAMBDA c : StepOf(c.op) # "none")

RECURSIVE Collapse(_)
Collapse(s) ==
    IF Len(s) <= 1 THEN s
    ELSE IF s[1] = s[2] THEN Collapse(Tail(s))
    ELSE <<s[1]>> \o Collapse(Tail(s))

Steps == Collapse([i \in 1..Len(JobCalls) |-> StepOf(JobCalls[i].op)])

IsPrefix(s, t) == Len(s) <= Len(t) /\ SubSeq(t, 1, Len(s)) = s

\* A call that completed without failure (a duplicate check that found no
\* file lets the job go on).
CompletedOk(c) ==
    CASE c.op = "check_duplicate_session" -> c.res = "False"
      [] c.op = "TDesktop" -> c.res = "loaded"
      [] c.op = "get_me" -> c.res = "user"
      [] c.op = "exists_session_file" -> c.res = "True"
      [] OTHER -> c.res = "ok"

SpecOrder == <<"load", "check", "convert", "connect", "identity", "persist", "release">>
CodeOrder == <<"check", "load", "convert", "connect", "identity", "persist", "release">>

\* C9 (as claimed): the steps of a job happen in the order load, existence
\* check, convert, connect, identity, persist check, release.
C9_LoadBeforeExistenceCheck == IsPrefix(Steps, SpecOrder)

\* C9 (amended): the steps of a job happen in the order existence check,
\* load, convert, connect, identity, persist check, release, each starting
\* only after the one before completed without failure (the loader's second
\* attempt follows a first one that found no account).
C9_StepsInCodeOrder ==
    /\ IsPrefix(Steps, CodeOrder)
    /\ \A i \in 1..(Len(JobCalls) - 1) :
            \/ CompletedOk(JobCalls[i])
            \/ /\ JobCalls[i].op = "TDesktop" /\ JobCalls[i].res = "not_loaded"
               /\ JobCalls[i + 1].op = "TDesktop"
    /\ result = "success" => Steps = CodeOrder

\* C9 witness: a job that went through all seven steps.
C9_Witness ==
    /\ pc = "done"
    /\ result = "success"
    /\ Len(Steps) = Len(CodeOrder)

\* ------------------------------------------------------------------ C10
\* The loader's calls of the current run.
LoaderCalls == SelectSeq(calls, LAMBDA c : c.op = "TDesktop")

====
